---- MODULE Spec2Model ----
(***************************************************************************)
(* Car physics / transform subsystem of bevy_car_ai (src/src/car.rs).      *)
(*                                                                         *)
(* f32 quantities are held in fixed point:                                 *)
(*   positions and velocities   in 1/PosScale track units (per second),    *)
(*   angles and angular rates   in 1/TAU turns (per second), keeping       *)
(*                              AngleBits significant bits as f32 keeps 24,*)
(*   control values             in 1/CtlScale,                             *)
(*   unit-vector components     in 1/Unit,                                 *)
(*   the track scale and world-space points as exact fractions.            *)
(* Every result that f32 rounds is rounded to the nearest representable    *)
(* value (RoundDiv, F32).                                                  *)
(***************************************************************************)
EXTENDS Integers, Sequences, FiniteSets, TLC

VARIABLES
    pc,         \* schedule the host is in: Startup, PreUpdate, RunFixedMainLoop, FixedUpdate, Render
    sys,        \* index of the next system of the FixedUpdate chain (0 outside a tick)
    keys,       \* ButtonInput<KeyCode>: the set of pressed keys
    window,     \* the primary window's <<width, height>>, or NoWindow
    time,       \* Time: the delta handed to update_physics, [num, den] seconds
    track,      \* Res<TrackConfig>
    config,     \* Res<CarPhysicsConfig>
    controls,   \* CarControls component of each car
    kin,        \* TrackTransform component of each car
    xform,      \* Transform component of each car
    prev,       \* history: each car's TrackTransform before the latest physics step
    ticks,      \* fixed ticks (physics steps) run so far
    frameTicks, \* fixed ticks run in the current frame
    pt,         \* a track point handed to track_to_world
    wpt,        \* track_to_world(pt)
    back        \* world_to_track(wpt)

vars == <<pc, sys, keys, window, time, track, config, controls, kin, xform,
          prev, ticks, frameTicks, pt, wpt, back>>

----------------------------------------------------------------------------
(* Number representation *)

PosScale == 100
CtlScale == 20000
Unit == 1000
TAU == 57600
\* significant bits kept of an angle
AngleBits == 12

Abs(x) == IF x < 0 THEN -x ELSE x

\* a / b rounded to the nearest integer, ties away from zero (b > 0)
RoundDiv(a, b) ==
    IF a >= 0 THEN (2 * a + b) \div (2 * b) ELSE -((2 * (-a) + b) \div (2 * b))

RECURSIVE Gcd(_, _)
Gcd(a, b) == IF b = 0 THEN a ELSE Gcd(b, a % b)

\* An exact fraction n/d in lowest terms with d > 0
Frac(n, d) ==
    LET g == Gcd(Abs(n), Abs(d))
        s == IF d < 0 THEN -1 ELSE 1
    IN  [n |-> s * (n \div g), d |-> s * (d \div g)]

FracMul(a, b) == Frac(a.n * b.n, a.d * b.d)
FracDiv(a, b) == Frac(a.n * b.d, a.d * b.n)
FracAdd(a, b) == Frac(a.n * b.d + b.n * a.d, a.d * b.d)
FracLess(a, b) == a.n * b.d < b.n * a.d
FracMin(a, b) == IF FracLess(b, a) THEN b ELSE a
FracRound(a) == RoundDiv(a.n, a.d)

Vec2(x, y) == [x |-> x, y |-> y]
Dot(a, b) == a.x * b.x + a.y * b.y
LengthSquared(a) == Dot(a, a)

RECURSIVE SqrtIter(_, _, _)
SqrtIter(n, lo, hi) ==
    IF lo >= hi THEN lo
    ELSE LET mid == (lo + hi + 1) \div 2
         IN  IF mid * mid <= n THEN SqrtIter(n, mid, hi) ELSE SqrtIter(n, lo, mid - 1)

\* f32::sqrt, correctly rounded: the integer nearest to the square root of n
Sqrt(n) ==
    LET r == SqrtIter(n, 0, 46340)
    IN  IF n - r * r > r THEN r + 1 ELSE r

\* a / b rounded to the nearest integer, ties to the even one (b > 0)
RoundDivEven(a, b) ==
    LET q == a \div b
        r == a % b
    IN  IF 2 * r < b THEN q
        ELSE IF 2 * r > b THEN q + 1
        ELSE IF q % 2 = 0 THEN q ELSE q + 1

RECURSIVE Pow2(_)
Pow2(n) == IF n = 0 THEN 1 ELSE 2 * Pow2(n - 1)

\* the spacing of the representable angles around a magnitude m
RECURSIVE Spacing(_)
Spacing(m) == IF m < Pow2(AngleBits) THEN 1 ELSE 2 * Spacing(m \div 2)

\* an angle or angular rate as f32 stores it: it keeps AngleBits significant bits,
\* so values near a full turn lie further apart than values near zero
F32(x) ==
    LET q == Spacing(Abs(x))
    IN  q * RoundDivEven(x, q)

\* f32::clamp
clamp(x, lo, hi) == IF x < lo THEN lo ELSE IF x > hi THEN hi ELSE x

\* f32 `%`: the remainder has the sign of the dividend
TruncRem(a, b) == IF a >= 0 THEN a % b ELSE -((-a) % b)

\* `%` in place of rem_euclid: a negative remainder is kept
rem_truncated(a, b) == TruncRem(a, b)

\* f32::rem_euclid
rem_euclid(a, b) ==
    LET r == TruncRem(a, b)
    IN  IF r < 0 THEN F32(r + Abs(b)) ELSE r

\* 1000 * sin of 0..90 degrees
SinTable ==
  << 0, 17, 35, 52, 70, 87, 105, 122, 139, 156, 174, 191, 208,
     225, 242, 259, 276, 292, 309, 326, 342, 358, 375, 391, 407, 423,
     438, 454, 469, 485, 500, 515, 530, 545, 559, 574, 588, 602, 616,
     629, 643, 656, 669, 682, 695, 707, 719, 731, 743, 755, 766, 777,
     788, 799, 809, 819, 829, 839, 848, 857, 866, 875, 883, 891, 899,
     906, 914, 921, 927, 934, 940, 946, 951, 956, 961, 966, 970, 974,
     978, 982, 985, 988, 990, 993, 995, 996, 998, 999, 999, 1000, 1000 >>

SinDeg(d) ==
    LET a == d % 360
    IN  IF a <= 90 THEN SinTable[a + 1]
        ELSE IF a <= 180 THEN SinTable[180 - a + 1]
        ELSE IF a <= 270 THEN -SinTable[a - 180 + 1]
        ELSE -SinTable[360 - a + 1]

CosDeg(d) == SinDeg(d + 90)

\* Vec2::from_angle: (cos, sin) of the angle, taken at the nearest degree
from_angle(angle) ==
    LET deg == RoundDiv(angle * 360, TAU)
    IN  Vec2(CosDeg(deg), SinDeg(deg))

----------------------------------------------------------------------------
(* glam::Vec2 *)

VAdd(a, b) == Vec2(a.x + b.x, a.y + b.y)
VSub(a, b) == Vec2(a.x - b.x, a.y - b.y)
\* v * (num/den), each component rounded
VMulRatio(v, num, den) == Vec2(RoundDiv(v.x * num, den), RoundDiv(v.y * num, den))

\* Vec2::project_onto_normalized: rhs * self.dot(rhs), rhs a unit vector in 1/Unit
project_onto_normalized(v, rhs) ==
    LET d == RoundDiv(Dot(v, rhs), Unit)
    IN  VMulRatio(rhs, d, Unit)

\* Vec2::lerp: self + (rhs - self) * s, with s = [num, den]
lerp(a, rhs, s) == VAdd(a, VMulRatio(VSub(rhs, a), s.num, s.den))

\* Vec2::clamp_length_min in place of clamp_length_max
clamp_length_min(v, min) ==
    LET length_sq == LengthSquared(v)
    IN  IF length_sq < min * min /\ length_sq > 0
        THEN VMulRatio(v, min, Sqrt(length_sq))
        ELSE v

\* Vec2::clamp_length_max: max * (self / length) when length_squared > max * max
clamp_length_max(v, max) ==
    LET length_sq == LengthSquared(v)
    IN  IF length_sq > max * max
        THEN VMulRatio(v, max, Sqrt(length_sq))
        ELSE v

----------------------------------------------------------------------------
(* TrackConfig *)

NoWindow == <<>>

DefaultTrackConfig == [logical_size |-> Vec2(100, 100), scale |-> Frac(1, 1)]

\* logical_size * 0.5, in 1/PosScale track units
HalfSize(cfg) ==
    Vec2((cfg.logical_size.x * PosScale) \div 2, (cfg.logical_size.y * PosScale) \div 2)

\* (track_coords - logical_size * 0.5) * scale; the world point is an exact fraction
track_to_world(cfg, track_coords) ==
    LET d == VSub(track_coords, HalfSize(cfg))
    IN  Vec2(FracMul(Frac(d.x, 1), cfg.scale), FracMul(Frac(d.y, 1), cfg.scale))

\* world_to_track multiplying by the scale instead of dividing
world_to_track_scaled(cfg, world_pos) ==
    LET h == HalfSize(cfg)
    IN  Vec2(FracRound(FracAdd(FracMul(world_pos.x, cfg.scale), Frac(h.x, 1))),
             FracRound(FracAdd(FracMul(world_pos.y, cfg.scale), Frac(h.y, 1))))

\* (world_pos / scale) + logical_size * 0.5, stored at the track resolution
world_to_track(cfg, world_pos) ==
    LET h == HalfSize(cfg)
    IN  Vec2(FracRound(FracAdd(FracDiv(world_pos.x, cfg.scale), Frac(h.x, 1))),
             FracRound(FracAdd(FracDiv(world_pos.y, cfg.scale), Frac(h.y, 1))))

\* scale = (window_size / logical_size).min_element()
compute_scale(cfg, window_size) ==
    [cfg EXCEPT !.scale = FracMin(Frac(window_size.x, cfg.logical_size.x),
                                  Frac(window_size.y, cfg.logical_size.y))]

\* the argument update_scale hands to compute_scale for a window <<width, height>>:
\* Vec2::new(window.height(), window.width())
WindowSizeArg(w) == Vec2(w[2], w[1])

\* The resource after the update_scale system: untouched without a single window
ScaleUpdated(cfg, w) ==
    IF w = NoWindow THEN cfg ELSE compute_scale(cfg, WindowSizeArg(w))

----------------------------------------------------------------------------
(* CarPhysicsConfig, CarControls, TrackTransform *)

\* Default for CarPhysicsConfig.  50 rad/s^2 is 50 / (2 pi) turns/s^2, 458366 in
\* 1/TAU turns and 458368 as stored; TAU rad/s is one turn per second.
DefaultCarPhysicsConfig ==
    [rotational_acceleration |-> 458368,
     max_rotational_velocity |-> TAU,
     forward_acceleration    |-> 200,
     friction                |-> [num |-> 97, den |-> 100],
     drift_factor            |-> [num |-> 99, den |-> 100],
     max_forward_velocity    |-> 150]

DefaultCarControls == [turn |-> Vec2(0, 0), accel |-> Vec2(0, 0)]

DefaultTrackTransform ==
    [position |-> Vec2(0, 0), rotation |-> 0,
     velocity |-> Vec2(0, 0), rotational_velocity |-> 0]

\* Transform::IDENTITY, the Transform of MaterialMesh2dBundle's default
DefaultTransform ==
    [translation |-> Vec2(Frac(0, 1), Frac(0, 1)), rotation |-> 0, scale |-> Frac(1, 1)]

\* |turn_control| < 0.0001 snaps to 0
DeadZone == CtlScale \div 10000

AccelControl(c) ==
    clamp(clamp(c.accel.x, 0, CtlScale) - clamp(c.accel.y, 0, CtlScale), -CtlScale, CtlScale)

TurnControl(c) ==
    LET t == clamp(clamp(c.turn.x, 0, CtlScale) - clamp(c.turn.y, 0, CtlScale),
                   -CtlScale, CtlScale)
    IN  IF Abs(t) < DeadZone THEN 0 ELSE t

\* turn_control * rotational_acceleration * dt
RotationalImpulse(turn_control, cfg, dt) ==
    LET tc == Frac(turn_control, CtlScale)
    IN  F32(RoundDiv(tc.n * cfg.rotational_acceleration * dt.num, tc.d * dt.den))

\* "update rotation" with the clamp applied before the acceleration is added
Rotated_clamp_first(t, turn_control, cfg, dt) ==
    IF turn_control = 0
    THEN [t EXCEPT !.rotational_velocity = 0]
    ELSE LET rv1 == clamp(t.rotational_velocity,
                          -cfg.max_rotational_velocity, cfg.max_rotational_velocity)
             rv  == F32(rv1 + RotationalImpulse(turn_control, cfg, dt))
             rot == F32(t.rotation + F32(RoundDiv(rv * dt.num, dt.den)))
         IN  [t EXCEPT !.rotational_velocity = rv, !.rotation = rem_euclid(rot, TAU)]

\* "update rotation" without the reset: with no turn input the car keeps rotating
Rotated_coasting(t, turn_control, cfg, dt) ==
    LET rv1 == F32(t.rotational_velocity + RotationalImpulse(turn_control, cfg, dt))
        rv  == clamp(rv1, -cfg.max_rotational_velocity, cfg.max_rotational_velocity)
        rot == F32(t.rotation + F32(RoundDiv(rv * dt.num, dt.den)))
    IN  [t EXCEPT !.rotational_velocity = rv, !.rotation = rem_euclid(rot, TAU)]

\* "update rotation": the rotational_velocity and rotation after the step
Rotated(t, turn_control, cfg, dt) ==
    IF turn_control = 0
    THEN [t EXCEPT !.rotational_velocity = 0]
    ELSE LET rv1 == F32(t.rotational_velocity + RotationalImpulse(turn_control, cfg, dt))
             rv  == clamp(rv1, -cfg.max_rotational_velocity, cfg.max_rotational_velocity)
             rot == F32(t.rotation + F32(RoundDiv(rv * dt.num, dt.den)))
         IN  [t EXCEPT !.rotational_velocity = rv, !.rotation = rem_euclid(rot, TAU)]

\* forward_vector * accel_control * dt * forward_acceleration
Acceleration(forward_vector, accel_control, cfg, dt) ==
    LET a == RoundDiv(accel_control * cfg.forward_acceleration * PosScale, CtlScale)
    IN  VMulRatio(forward_vector, a * dt.num, Unit * dt.den)

\* "Apply drift and clamp speed"
Drifted(velocity, forward_vector, cfg) ==
    clamp_length_max(
        lerp(project_onto_normalized(velocity, forward_vector), velocity, cfg.drift_factor),
        cfg.max_forward_velocity * PosScale)

\* the loop body with the friction divided instead of multiplied (velocity /= friction)
PhysicsStep_friction_divided(t, c, cfg, dt) ==
    LET r  == Rotated(t, TurnControl(c), cfg, dt)
        forward_vector == from_angle(r.rotation)
        v1 == VAdd(r.velocity, Acceleration(forward_vector, AccelControl(c), cfg, dt))
        v2 == VMulRatio(v1, cfg.friction.den, cfg.friction.num)
        v3 == Drifted(v2, forward_vector, cfg)
    IN  [r EXCEPT !.velocity = v3,
                  !.position = VAdd(r.position, VMulRatio(v3, dt.num, dt.den))]

\* The body of update_physics' loop for one car
PhysicsStep(t, c, cfg, dt) ==
    LET r  == Rotated(t, TurnControl(c), cfg, dt)
        forward_vector == from_angle(r.rotation)
        v1 == VAdd(r.velocity, Acceleration(forward_vector, AccelControl(c), cfg, dt))
        v2 == VMulRatio(v1, cfg.friction.num, cfg.friction.den)
        v3 == Drifted(v2, forward_vector, cfg)
    IN  [r EXCEPT !.velocity = v3,
                  !.position = VAdd(r.position, VMulRatio(v3, dt.num, dt.den))]

\* the projection without Transform::from_scale
Projected_unscaled(t, cfg) ==
    [translation |-> track_to_world(cfg, t.position),
     rotation    |-> t.rotation,
     scale       |-> Frac(1, 1)]

\* Transform::from_translation(..) * Transform::from_scale(..) * Transform::from_rotation(..)
Projected(t, cfg) ==
    [translation |-> track_to_world(cfg, t.position),
     rotation    |-> t.rotation,
     scale       |-> cfg.scale]

KeyCodes == {"KeyW", "KeyS", "KeyA", "KeyD"}

Pressed(button_inputs, k) == IF k \in button_inputs THEN CtlScale ELSE 0

\* The CarControls read_player_input writes to every UserControlled car
PlayerControls(button_inputs) ==
    [turn  |-> Vec2(Pressed(button_inputs, "KeyA"), Pressed(button_inputs, "KeyD")),
     accel |-> Vec2(Pressed(button_inputs, "KeyW"), Pressed(button_inputs, "KeyS"))]

\* spawn_player_car spawns the one car, tagged UserControlled
Cars == {"player"}
UserControlled == {"player"}

----------------------------------------------------------------------------
(* Bounds and input sets *)

\* fixed ticks a behaviour of Spec runs
MaxTicks == 2
\* physics steps a behaviour of SpecPhysics runs
MaxSteps == 4

\* Time<Fixed>'s default timestep, 1/64 s: the delta update_physics sees in FixedUpdate
FixedTimestep == [num |-> 1, den |-> 64]

\* Window::default() is 1280 x 720
StartWindow == <<1280, 720>>
Windows == {NoWindow, StartWindow, <<200, 100>>}

\* deltas for SpecPhysics: none, the fixed timestep, a whole second
DtSet == {[num |-> 0, den |-> 1], FixedTimestep, [num |-> 1, den |-> 1]}

Ctl(tl, tr, af, ab) == [turn |-> Vec2(tl, tr), accel |-> Vec2(af, ab)]

\* CarControls values for SpecPhysics, in 1/CtlScale: keys, analogue values, a value
\* inside the dead zone, and raw values outside [0, 1]
RawControls ==
    { Ctl(0, 0, 0, 0),
      Ctl(CtlScale, 0, CtlScale, 0),
      Ctl(0, CtlScale, 0, CtlScale),
      Ctl(CtlScale, CtlScale, CtlScale, 0),
      Ctl(1, 0, 0, 0),
      Ctl(0, CtlScale \div 2, CtlScale \div 2, 0),
      Ctl(2 * CtlScale, -CtlScale, 3 * CtlScale, -2 * CtlScale),
      Ctl(-CtlScale, 5 * CtlScale, -3 * CtlScale, 2 * CtlScale) }

\* TrackConfig.logical_size values for SpecTrack, in track units
LogicalSizes == {Vec2(100, 100), Vec2(200, 100), Vec2(100, 200), Vec2(60, 90)}
\* windows for SpecTrack
TrackWindows == {NoWindow, StartWindow, <<200, 100>>, <<100, 400>>, <<50, 50>>, <<300, 450>>}
\* track points for SpecTrack, in 1/PosScale track units
Coords == {-2500, 0, 1234, 3000, 4500, 5000, 10000, 31999}

----------------------------------------------------------------------------
(* Systems *)

\* the three systems added without .chain(), run with the projection first
ChainProjectionFirst == <<"update_transform", "read_player_input", "update_physics">>

\* .add_systems(FixedUpdate, (read_player_input, update_physics, update_transform).chain())
FixedUpdateChain == <<"read_player_input", "update_physics", "update_transform">>

\* the components after each system's loop over its query
ControlsRead(ctl, button_inputs) ==
    [c \in Cars |-> IF c \in UserControlled THEN PlayerControls(button_inputs) ELSE ctl[c]]

PhysicsUpdated(k, ctl, cfg, dt) == [c \in Cars |-> PhysicsStep(k[c], ctl[c], cfg, dt)]

TransformsUpdated(k, cfg) == [c \in Cars |-> Projected(k[c], cfg)]

Running(name) == pc = "FixedUpdate" /\ FixedUpdateChain[sys] = name

\* The chain moves on to its next system; after the last one the tick is over
Advance ==
    IF sys = Len(FixedUpdateChain)
    THEN /\ pc' = "RunFixedMainLoop"
         /\ sys' = 0
         /\ ticks' = ticks + 1
         /\ frameTicks' = frameTicks + 1
    ELSE /\ pc' = pc
         /\ sys' = sys + 1
         /\ UNCHANGED <<ticks, frameTicks>>

\* A frame begins: the host has polled the keyboard and the window
HostFrame ==
    /\ pc \in {"Startup", "Render"}
    /\ \E k \in SUBSET KeyCodes, w \in Windows :
         /\ keys' = k
         /\ window' = w
    /\ pc' = "PreUpdate"
    /\ frameTicks' = 0
    /\ UNCHANGED <<sys, time, track, config, controls, kin, xform, prev, ticks, pt, wpt, back>>

\* TrackConfig::update_scale, in PreUpdate
update_scale ==
    /\ pc = "PreUpdate"
    /\ track' = ScaleUpdated(track, window)
    /\ pc' = "RunFixedMainLoop"
    /\ UNCHANGED <<sys, keys, window, time, config, controls, kin, xform, prev,
                   ticks, frameTicks, pt, wpt, back>>

\* RunFixedMainLoop runs FixedUpdate once more
BeginTick ==
    /\ pc = "RunFixedMainLoop"
    /\ ticks < MaxTicks
    /\ pc' = "FixedUpdate"
    /\ sys' = 1
    /\ UNCHANGED <<keys, window, time, track, config, controls, kin, xform, prev,
                   ticks, frameTicks, pt, wpt, back>>

\* CarControls::read_player_input
read_player_input ==
    /\ Running("read_player_input")
    /\ controls' = ControlsRead(controls, keys)
    /\ Advance
    /\ UNCHANGED <<keys, window, time, track, config, kin, xform, prev, pt, wpt, back>>

\* update_physics taking the CarControls mutably and clearing them once used
update_physics_consuming ==
    /\ Running("update_physics")
    /\ prev' = kin
    /\ kin' = PhysicsUpdated(kin, controls, config, time)
    /\ controls' = [c \in Cars |-> DefaultCarControls]
    /\ Advance
    /\ UNCHANGED <<keys, window, time, track, config, xform, pt, wpt, back>>

\* TrackTransform::update_physics
update_physics ==
    /\ Running("update_physics")
    /\ prev' = kin
    /\ kin' = PhysicsUpdated(kin, controls, config, time)
    /\ Advance
    /\ UNCHANGED <<keys, window, time, track, config, controls, xform, pt, wpt, back>>

\* TrackTransform::update_transform
update_transform ==
    /\ Running("update_transform")
    /\ xform' = TransformsUpdated(kin, track)
    /\ Advance
    /\ UNCHANGED <<keys, window, time, track, config, controls, kin, prev, pt, wpt, back>>

\* RunFixedMainLoop is done; Update .. Last run no system of the plugin; the frame is drawn
EndFrame ==
    /\ pc = "RunFixedMainLoop"
    /\ pc' = "Render"
    /\ UNCHANGED <<sys, keys, window, time, track, config, controls, kin, xform, prev,
                   ticks, frameTicks, pt, wpt, back>>

\* After Startup: the resources at their defaults, the player car spawned
Init ==
    /\ pc = "Startup"
    /\ sys = 0
    /\ keys = {}
    /\ window = StartWindow
    /\ time = FixedTimestep
    /\ track = DefaultTrackConfig
    /\ config = DefaultCarPhysicsConfig
    /\ controls = [c \in Cars |-> DefaultCarControls]
    /\ kin = [c \in Cars |-> DefaultTrackTransform]
    /\ xform = [c \in Cars |-> DefaultTransform]
    /\ prev = [c \in Cars |-> DefaultTrackTransform]
    /\ ticks = 0
    /\ frameTicks = 0
    /\ pt = Vec2(0, 0)
    /\ wpt = track_to_world(DefaultTrackConfig, Vec2(0, 0))
    /\ back = Vec2(0, 0)

Next ==
    \/ HostFrame
    \/ update_scale
    \/ BeginTick
    \/ read_player_input
    \/ update_physics
    \/ update_transform
    \/ EndFrame

Spec == Init /\ [][Next]_vars

----------------------------------------------------------------------------
(* update_physics as a function of its inputs: any CarControls, any delta *)

StepPhysics ==
    /\ pc = "Physics"
    /\ ticks < MaxSteps
    /\ \E c \in RawControls, dt \in DtSet :
         /\ controls' = [car \in Cars |-> c]
         /\ time' = dt
    /\ prev' = kin
    /\ kin' = PhysicsUpdated(kin, controls', config, time')
    /\ ticks' = ticks + 1
    /\ UNCHANGED <<pc, sys, keys, window, track, config, xform, frameTicks, pt, wpt, back>>

InitPhysics ==
    /\ pc = "Physics"
    /\ sys = 0
    /\ keys = {}
    /\ window = StartWindow
    /\ time = FixedTimestep
    /\ track = DefaultTrackConfig
    /\ config = DefaultCarPhysicsConfig
    /\ controls = [c \in Cars |-> DefaultCarControls]
    /\ kin = [c \in Cars |-> DefaultTrackTransform]
    /\ xform = [c \in Cars |-> DefaultTransform]
    /\ prev = [c \in Cars |-> DefaultTrackTransform]
    /\ ticks = 0
    /\ frameTicks = 0
    /\ pt = Vec2(0, 0)
    /\ wpt = track_to_world(DefaultTrackConfig, Vec2(0, 0))
    /\ back = Vec2(0, 0)

NextPhysics == StepPhysics

SpecPhysics == InitPhysics /\ [][NextPhysics]_vars

----------------------------------------------------------------------------
(* TrackConfig as a function of its inputs: any logical size, window and point *)

\* update_scale with any window
Resize ==
    /\ pc \in {"Track", "Resized"}
    /\ \E w \in TrackWindows :
         /\ window' = w
         /\ track' = ScaleUpdated(track, w)
         /\ pc' = IF w = NoWindow THEN pc ELSE "Resized"
    /\ UNCHANGED <<sys, keys, time, config, controls, kin, xform, prev, ticks,
                   frameTicks, pt, wpt, back>>

\* track_to_world of any point, and world_to_track of the result
Convert ==
    /\ pc \in {"Track", "Resized"}
    /\ \E x \in Coords, y \in Coords :
         /\ pt' = Vec2(x, y)
         /\ wpt' = track_to_world(track, pt')
         /\ back' = world_to_track(track, wpt')
    /\ UNCHANGED <<pc, sys, keys, window, time, track, config, controls, kin, xform,
                   prev, ticks, frameTicks>>

InitTrack ==
    /\ pc = "Track"
    /\ sys = 0
    /\ keys = {}
    /\ window = StartWindow
    /\ time = FixedTimestep
    /\ \E ls \in LogicalSizes : track = [logical_size |-> ls, scale |-> Frac(1, 1)]
    /\ config = DefaultCarPhysicsConfig
    /\ controls = [c \in Cars |-> DefaultCarControls]
    /\ kin = [c \in Cars |-> DefaultTrackTransform]
    /\ xform = [c \in Cars |-> DefaultTransform]
    /\ prev = [c \in Cars |-> DefaultTrackTransform]
    /\ ticks = 0
    /\ frameTicks = 0
    /\ pt = Vec2(0, 0)
    /\ wpt = track_to_world(track, pt)
    /\ back = world_to_track(track, wpt)

NextTrack == Resize \/ Convert

SpecTrack == InitTrack /\ [][NextTrack]_vars

----------------------------------------------------------------------------
(* Properties *)

MaxSpeed == config.max_forward_velocity * PosScale

ZeroInput(c) == c.turn = Vec2(0, 0) /\ c.accel = Vec2(0, 0)

\* v is not parallel to the heading of t
OffHeading(t) ==
    LET f == from_angle(t.rotation)
    IN  t.velocity.x * f.y - t.velocity.y * f.x # 0

\* C1 as stated: after every update_physics step, whatever the controls and the
\* delta, the speed is at most max_forward_velocity.
SpeedClampExact ==
    \A c \in Cars : LengthSquared(kin[c].velocity) <= MaxSpeed * MaxSpeed

\* C1, amended: after every update_physics step the speed is at most
\* max_forward_velocity plus the rounding of the rescaled components, one step of
\* the velocity resolution.
SpeedClamp ==
    \A c \in Cars : LengthSquared(kin[c].velocity) <= (MaxSpeed + 1) * (MaxSpeed + 1)

\* C1 witness: a step has clamped a faster velocity down to the maximum
SpeedClampWitness ==
    /\ ticks > 0
    /\ \E c \in Cars :
         /\ AccelControl(controls[c]) # 0
         /\ LengthSquared(kin[c].velocity) >= (MaxSpeed - 1) * (MaxSpeed - 1)

\* C2: a step whose normalized turn_control is 0 leaves rotational_velocity exactly 0,
\* whatever it was before; a step with turn.left fully held, turn.right released and
\* a positive delta, taken from a non-negative rotational_velocity, leaves it
\* positive (so holding left from rest gives a non-zero value after every tick).
ReleaseStopsRotation ==
    \A c \in Cars :
        ticks > 0 =>
            /\ TurnControl(controls[c]) = 0 => kin[c].rotational_velocity = 0
            /\ ( /\ TurnControl(controls[c]) = CtlScale
                 /\ time.num > 0
                 /\ prev[c].rotational_velocity >= 0 )
               => kin[c].rotational_velocity > 0

\* C2 witness: a car that was rotating has been stopped by a step with no turn input
ReleaseStopsRotationWitness ==
    /\ ticks > 0
    /\ \E c \in Cars :
         /\ TurnControl(controls[c]) = 0
         /\ prev[c].rotational_velocity > 0
         /\ kin[c].rotational_velocity = 0

\* C4: after any number of steps the rotation lies in [0, TAU), wrapped from below 0
\* as from above TAU
RotationNormalized ==
    \A c \in Cars : 0 <= kin[c].rotation /\ kin[c].rotation < TAU

\* a right turn has driven the rotation below 0 and it has wrapped
RotationWrappedBelow ==
    /\ ticks > 0
    /\ \E c \in Cars :
         /\ kin[c].rotational_velocity < 0
         /\ kin[c].rotation > prev[c].rotation

\* a left turn has driven the rotation to TAU or above and it has wrapped
RotationWrappedAbove ==
    /\ ticks > 0
    /\ \E c \in Cars :
         /\ kin[c].rotational_velocity > 0
         /\ kin[c].rotation < prev[c].rotation

\* C7: with accel = (0,0) and turn = (0,0) a step never increases the speed, and it
\* strictly decreases a speed of one track unit per second or more.
ZeroInputDecay ==
    \A c \in Cars :
        (ticks > 0 /\ ZeroInput(controls[c])) =>
            /\ LengthSquared(kin[c].velocity) <= LengthSquared(prev[c].velocity)
            /\ LengthSquared(prev[c].velocity) >= PosScale * PosScale
               => LengthSquared(kin[c].velocity) < LengthSquared(prev[c].velocity)

\* C7 witness: a zero-input step has slowed a car that was sliding off its heading
ZeroInputDecayWitness ==
    /\ ticks > 0
    /\ \E c \in Cars :
         /\ ZeroInput(controls[c])
         /\ OffHeading(prev[c])
         /\ LengthSquared(prev[c].velocity) >= PosScale * PosScale
         /\ LengthSquared(kin[c].velocity) < LengthSquared(prev[c].velocity)

\* C8: after every step |rotational_velocity| <= max_rotational_velocity
RotationalVelocityBound ==
    \A c \in Cars :
        Abs(kin[c].rotational_velocity) <= config.max_rotational_velocity

\* C8 witness: a step has clamped the rotational velocity at the maximum
RotationalVelocityBoundWitness ==
    /\ ticks > 0
    /\ \E c \in Cars :
         /\ TurnControl(controls[c]) # 0
         /\ Abs(kin[c].rotational_velocity) = config.max_rotational_velocity

\* project(kinematics, track) of the design: x is the render transform of t under cfg
IsProjection(x, t, cfg) ==
    /\ x.translation = track_to_world(cfg, t.position)
    /\ x.rotation = t.rotation
    /\ x.scale = cfg.scale

\* a fixed tick has run to its end in the current frame
TickDone == pc \in {"RunFixedMainLoop", "Render"} /\ frameTicks > 0

\* C5: at the end of every fixed tick the controls are the ones read_player_input
\* maps from the keys of that tick, every car's kinematics are the physics step of
\* its kinematics at the start of the tick under those controls, and every car's
\* Transform is the projection of the kinematics after that step.
TickPhaseOrdering ==
    (pc = "RunFixedMainLoop" /\ frameTicks > 0) =>
        \A c \in Cars :
            /\ c \in UserControlled => controls[c] = PlayerControls(keys)
            /\ kin[c] = PhysicsStep(prev[c], controls[c], config, time)
            /\ IsProjection(xform[c], kin[c], track)

\* C5 witness: a tick has ended in which keys were held and the car has moved
TickPhaseOrderingWitness ==
    /\ pc = "RunFixedMainLoop"
    /\ frameTicks > 0
    /\ "KeyW" \in keys
    /\ \E c \in Cars :
         /\ kin[c].position # prev[c].position
         /\ prev[c].velocity # Vec2(0, 0)
         /\ IsProjection(xform[c], kin[c], track)

KinematicsOwnership ==
    [][ /\ ~Running("update_physics") => kin' = kin
        /\ Running("update_physics") =>
              (track' = track /\ config' = config /\ controls' = controls) ]_vars

\* C10 witness: input mapping, resize and projection have all run on a moving car
KinematicsOwnershipWitness ==
    /\ pc = "RunFixedMainLoop"
    /\ ticks > 1
    /\ track.scale # DefaultTrackConfig.scale
    /\ \E c \in Cars :
         /\ controls[c] # DefaultCarControls
         /\ kin[c].velocity # Vec2(0, 0)
         /\ kin[c].rotational_velocity # 0
         /\ xform[c] # DefaultTransform

\* logical_size * scale fits the window <<width, height>> and touches it on one axis
Fits(cfg, w) ==
    LET sx == cfg.logical_size.x * cfg.scale.n
        sy == cfg.logical_size.y * cfg.scale.n
    IN  /\ sx <= w[1] * cfg.scale.d
        /\ sy <= w[2] * cfg.scale.d
        /\ (sx = w[1] * cfg.scale.d \/ sy = w[2] * cfg.scale.d)

\* C3: after update_scale has run for a window of width w and height h,
\* logical_size.x * scale <= w and logical_size.y * scale <= h, with equality on
\* at least one axis, for square and non-square logical sizes alike.
FitInvariant ==
    (pc = "Resized" /\ window # NoWindow) => Fits(track, window)

CentreConverted == pc = "Resized" /\ pt = HalfSize(track) /\ wpt = track_to_world(track, pt)

====
